---- MODULE Spec2Model ----
(***************************************************************************)
(* Model of the committed-migration orchestration of graphile-migrate:     *)
(* src/commands/migrate.ts, function _migrate.  Each invocation of         *)
(* _migrate is a run; runs against the same target database coordinate     *)
(* through the advisory lock and share only the persisted marker of the    *)
(* last committed migration.                                               *)
(***************************************************************************)
EXTENDS Integers, Sequences, FiniteSets, TLC

\* ---------------------------------------------------------------- bounds
NumRuns == 2
MaxCatalog == 3

Runs == 1..NumRuns
Targets == {"Production", "Shadow"}
NoRun == 0
\* lastMigration is null when the target has never been migrated
NoMigration == 0

\* ------------------------------------------------------------ state
VARIABLES
  settings,            \* parsedSettings: which connection strings exist, the catalog
  marker,              \* per target: identity of the last committed migration
  lockHolder,          \* per target: run holding the advisory lock
  pc,                  \* per run: the await the run is suspended at
  shadow,              \* per run: argument shadow
  forceActions,        \* per run: argument forceActions
  client,              \* per run: TRUE while the run holds its pgClient
  lastMigration,       \* per run: const lastMigration
  remainingMigrations, \* per run: const remainingMigrations
  index,               \* per run: position of the for-of loop
  err,                 \* per run: the error thrown, if any
  applied,             \* per run: migrations runCommittedMigration committed in this run
  calls,               \* per run: how often each collaborator was invoked
  reports,             \* per run: lines passed to logger.info
  commitLog,           \* per target: every migration committed, in commit order
  initMarker,          \* per target: the marker before any run
  precededBySuccess    \* per run: invoked after a successful run on the same target

vars == <<settings, marker, lockHolder, pc, shadow, forceActions, client,
          lastMigration, remainingMigrations, index, err, applied, calls,
          reports, commitLog, initMarker, precededBySuccess>>

\* ------------------------------------------------------------ helpers
Catalog(n) == [i \in 1..n |-> i]

NoError == [kind |-> "none", migration |-> NoMigration]

Error(kind, migration) == [kind |-> kind, migration |-> migration]

NoCalls == [before |-> 0, after |-> 0, ledger |-> 0,
            lockAcq |-> 0, lockRel |-> 0, connAcq |-> 0, connRel |-> 0]

Target_AlwaysProduction(sh) == "Production"

Target(sh) == IF sh THEN "Shadow" ELSE "Production"

TargetOf(r) == Target(shadow[r])

\* const connectionString = shadow ? shadowConnectionString : connectionString
ConnectionString_IgnoreShadow(s, sh) == s.connectionString

ConnectionString(s, sh) ==
  IF sh THEN s.shadowConnectionString ELSE s.connectionString

LogSuffix(sh) == IF sh THEN "[shadow]" ELSE ""

\* remainingMigrations.length > 0 || forceActions
ShouldExecuteActions_IgnoreForce(remaining, force) == Len(remaining) > 0

ShouldExecuteActions_Always(remaining, force) == TRUE

ShouldExecuteActions_OnlyForce(remaining, force) == force

ShouldExecuteActions(remaining, force) == Len(remaining) > 0 \/ force

\* the index of marker m in the catalog, 0 when absent
RECURSIVE IndexIn(_, _, _)
IndexIn(cat, m, i) ==
  IF i > Len(cat) THEN 0
  ELSE IF cat[i] = m THEN i ELSE IndexIn(cat, m, i + 1)

InCatalog(cat, m) == m = NoMigration \/ IndexIn(cat, m, 1) > 0

\* getMigrationsAfter: the catalog strictly after the marker, in catalog order
GetMigrationsAfter(cat, m) ==
  IF m = NoMigration THEN cat
  ELSE SubSeq(cat, IndexIn(cat, m, 1) + 1, Len(cat))

\* the status line of logger.info
StatusLine_MarkerIgnored(sh, remaining, last) ==
  [suffix |-> LogSuffix(sh),
   count |-> Len(remaining),
   text |-> IF Len(remaining) > 0 THEN "committed migrations executed"
            ELSE "Already up to date"]

StatusLine(sh, remaining, last) ==
  [suffix |-> LogSuffix(sh),
   count |-> Len(remaining),
   text |-> IF Len(remaining) > 0 THEN "committed migrations executed"
            ELSE IF last # NoMigration THEN "Already up to date"
            ELSE "Up to date - no committed migrations to run"]

\* ------------------------------------------------------ control flow
\* the withClient callback calls withAdvisoryLock first
ClientBodyEntry_NoLock == "getLast"

ClientBodyEntry == "lock"

\* a throw inside the locked body leaves it through withAdvisoryLock
LedgerFailPc_Leak == "release"

LedgerFailPc_Continue == "before"

LedgerFailPc == "unlock"

\* for (const migration of remainingMigrations)
NextIndex_Skip(i) == i + 2

NextIndex_Stay(i) == i

NextIndex(i) == i + 1

AfterLoopPc(remaining, force) ==
  IF ShouldExecuteActions(remaining, force) THEN "after" ELSE "report"

LoopPc_OffByOne(remaining, force, i) ==
  IF i < Len(remaining) THEN "migrate" ELSE AfterLoopPc(remaining, force)

LoopPc(remaining, force, i) ==
  IF i <= Len(remaining) THEN "migrate" ELSE AfterLoopPc(remaining, force)

BeforeFailPc_Continue(remaining, force) == LoopPc(remaining, force, 1)

BeforeFailPc(remaining, force) == "unlock"

MigrationFailPc_Continue(remaining, force, i) ==
  LoopPc(remaining, force, NextIndex(i))

MigrationFailPc(remaining, force, i) == "unlock"

\* a throw of the After phase leaves the body before logger.info
AfterFailPc_Continue == "report"

AfterFailPc_Leak == "release"

AfterFailPc == "unlock"

AfterLedgerPc_SkipBefore(remaining, force) == LoopPc(remaining, force, 1)

AfterLedgerPc(remaining, force) ==
  IF ShouldExecuteActions(remaining, force) THEN "before"
  ELSE LoopPc(remaining, force, 1)

Bump(r, field) == [calls EXCEPT ![r][field] = @ + 1]

\* ------------------------------------------------------------ Init
Init ==
  /\ settings \in [connectionString : BOOLEAN,
                   shadowConnectionString : BOOLEAN,
                   catalog : {Catalog(n) : n \in 0..MaxCatalog}]
  /\ marker \in [Targets -> 0..MaxCatalog]
  /\ initMarker = marker
  /\ lockHolder = [t \in Targets |-> NoRun]
  /\ pc = [r \in Runs |-> "idle"]
  /\ shadow = [r \in Runs |-> FALSE]
  /\ forceActions = [r \in Runs |-> FALSE]
  /\ client = [r \in Runs |-> FALSE]
  /\ lastMigration = [r \in Runs |-> NoMigration]
  /\ remainingMigrations = [r \in Runs |-> <<>>]
  /\ index = [r \in Runs |-> 1]
  /\ err = [r \in Runs |-> NoError]
  /\ applied = [r \in Runs |-> <<>>]
  /\ calls = [r \in Runs |-> NoCalls]
  /\ reports = [r \in Runs |-> <<>>]
  /\ commitLog = [t \in Targets |-> <<>>]
  /\ precededBySuccess = [r \in Runs |-> FALSE]

\* ------------------------------------------------------------ actions
\* _migrate(parsedSettings, shadow, forceActions) up to the call of withClient;
\* runs are numbered in the order of their invocation
Invoke(r) ==
  /\ pc[r] = "idle"
  /\ \A q \in Runs : q < r => pc[q] # "idle"
  /\ \E sh \in BOOLEAN, fa \in BOOLEAN :
       /\ shadow' = [shadow EXCEPT ![r] = sh]
       /\ forceActions' = [forceActions EXCEPT ![r] = fa]
       /\ precededBySuccess' = [precededBySuccess EXCEPT ![r] =
            \E q \in Runs \ {r} : /\ pc[q] = "done"
                                  /\ err[q].kind = "none"
                                  /\ shadow[q] = sh]
       /\ IF ~ConnectionString(settings, sh)
          THEN /\ err' = [err EXCEPT ![r] = Error("config", NoMigration)]
               /\ pc' = [pc EXCEPT ![r] = "done"]
          ELSE /\ pc' = [pc EXCEPT ![r] = "connect"]
               /\ err' = err
  /\ UNCHANGED <<settings, marker, lockHolder, client, lastMigration,
                 remainingMigrations, index, applied, calls, reports,
                 commitLog, initMarker>>

\* withClient hands the callback a connection
Connect(r) ==
  /\ pc[r] = "connect"
  /\ client' = [client EXCEPT ![r] = TRUE]
  /\ calls' = Bump(r, "connAcq")
  /\ pc' = [pc EXCEPT ![r] = ClientBodyEntry]
  /\ UNCHANGED <<settings, marker, lockHolder, shadow, forceActions,
                 lastMigration, remainingMigrations, index, err, applied,
                 reports, commitLog, initMarker, precededBySuccess>>

\* withClient cannot reach the database
ConnectFail(r) ==
  /\ pc[r] = "connect"
  /\ err' = [err EXCEPT ![r] = Error("connection", NoMigration)]
  /\ pc' = [pc EXCEPT ![r] = "done"]
  /\ UNCHANGED <<settings, marker, lockHolder, shadow, forceActions, client,
                 lastMigration, remainingMigrations, index, applied, calls,
                 reports, commitLog, initMarker, precededBySuccess>>

\* withAdvisoryLock: blocks until the lock of the target is free
AcquireLock(r) ==
  /\ pc[r] = "lock"
  /\ lockHolder[TargetOf(r)] = NoRun
  /\ lockHolder' = [lockHolder EXCEPT ![TargetOf(r)] = r]
  /\ calls' = Bump(r, "lockAcq")
  /\ pc' = [pc EXCEPT ![r] = "getLast"]
  /\ UNCHANGED <<settings, marker, shadow, forceActions, client,
                 lastMigration, remainingMigrations, index, err, applied,
                 reports, commitLog, initMarker, precededBySuccess>>

\* withAdvisoryLock: the session is lost while waiting
LockFail(r) ==
  /\ pc[r] = "lock"
  /\ err' = [err EXCEPT ![r] = Error("lock", NoMigration)]
  /\ pc' = [pc EXCEPT ![r] = "release"]
  /\ UNCHANGED <<settings, marker, lockHolder, shadow, forceActions, client,
                 lastMigration, remainingMigrations, index, applied, calls,
                 reports, commitLog, initMarker, precededBySuccess>>

\* const lastMigration = await getLastMigration(pgClient, parsedSettings)
GetLast(r) ==
  /\ pc[r] = "getLast"
  /\ lastMigration' = [lastMigration EXCEPT ![r] = marker[TargetOf(r)]]
  /\ calls' = Bump(r, "ledger")
  /\ pc' = [pc EXCEPT ![r] = "getAfter"]
  /\ UNCHANGED <<settings, marker, lockHolder, shadow, forceActions, client,
                 remainingMigrations, index, err, applied, reports,
                 commitLog, initMarker, precededBySuccess>>

\* getLastMigration throws: the bookkeeping is absent or corrupt
GetLastFail(r) ==
  /\ pc[r] = "getLast"
  /\ calls' = Bump(r, "ledger")
  /\ err' = [err EXCEPT ![r] = Error("ledger", NoMigration)]
  /\ pc' = [pc EXCEPT ![r] = LedgerFailPc]
  /\ UNCHANGED <<settings, marker, lockHolder, shadow, forceActions, client,
                 lastMigration, remainingMigrations, index, applied, reports,
                 commitLog, initMarker, precededBySuccess>>

\* const remainingMigrations = await getMigrationsAfter(...), then
\* shouldExecuteActions decides where the run suspends next
GetAfter(r) ==
  /\ pc[r] = "getAfter"
  /\ InCatalog(settings.catalog, lastMigration[r])
  /\ LET rem == GetMigrationsAfter(settings.catalog, lastMigration[r]) IN
       /\ remainingMigrations' = [remainingMigrations EXCEPT ![r] = rem]
       /\ pc' = [pc EXCEPT ![r] = AfterLedgerPc(rem, forceActions[r])]
  /\ calls' = Bump(r, "ledger")
  /\ index' = [index EXCEPT ![r] = 1]
  /\ UNCHANGED <<settings, marker, lockHolder, shadow, forceActions, client,
                 lastMigration, err, applied, reports, commitLog, initMarker,
                 precededBySuccess>>

\* getMigrationsAfter throws: the marker is not in the catalog
GetAfterFail(r) ==
  /\ pc[r] = "getAfter"
  /\ ~InCatalog(settings.catalog, lastMigration[r])
  /\ calls' = Bump(r, "ledger")
  /\ err' = [err EXCEPT ![r] = Error("ledger", lastMigration[r])]
  /\ pc' = [pc EXCEPT ![r] = LedgerFailPc]
  /\ UNCHANGED <<settings, marker, lockHolder, shadow, forceActions, client,
                 lastMigration, remainingMigrations, index, applied, reports,
                 commitLog, initMarker, precededBySuccess>>

\* await executeActions(parsedSettings, shadow, beforeAllMigrations)
Before(r) ==
  /\ pc[r] = "before"
  /\ calls' = Bump(r, "before")
  /\ pc' = [pc EXCEPT ![r] = LoopPc(remainingMigrations[r], forceActions[r], 1)]
  /\ UNCHANGED <<settings, marker, lockHolder, shadow, forceActions, client,
                 lastMigration, remainingMigrations, index, err, applied,
                 reports, commitLog, initMarker, precededBySuccess>>

\* a beforeAllMigrations action fails
BeforeFail(r) ==
  /\ pc[r] = "before"
  /\ calls' = Bump(r, "before")
  /\ err' = [err EXCEPT ![r] = Error("before", NoMigration)]
  /\ pc' = [pc EXCEPT ![r] = BeforeFailPc(remainingMigrations[r], forceActions[r])]
  /\ UNCHANGED <<settings, marker, lockHolder, shadow, forceActions, client,
                 lastMigration, remainingMigrations, index, applied, reports,
                 commitLog, initMarker, precededBySuccess>>

\* await runCommittedMigration(pgClient, parsedSettings, context, migration, logSuffix)
RunMigration(r) ==
  /\ pc[r] = "migrate"
  /\ LET migration == remainingMigrations[r][index[r]] IN
       /\ marker' = [marker EXCEPT ![TargetOf(r)] = migration]
       /\ commitLog' = [commitLog EXCEPT ![TargetOf(r)] = Append(@, migration)]
       /\ applied' = [applied EXCEPT ![r] = Append(@, migration)]
  /\ index' = [index EXCEPT ![r] = NextIndex(@)]
  /\ pc' = [pc EXCEPT ![r] =
       LoopPc(remainingMigrations[r], forceActions[r], NextIndex(index[r]))]
  /\ UNCHANGED <<settings, lockHolder, shadow, forceActions, client,
                 lastMigration, remainingMigrations, err, calls, reports,
                 initMarker, precededBySuccess>>

\* runCommittedMigration throws: nothing of the migration is committed
RunMigrationFail(r) ==
  /\ pc[r] = "migrate"
  /\ err' = [err EXCEPT ![r] =
       Error("migration", remainingMigrations[r][index[r]])]
  /\ pc' = [pc EXCEPT ![r] =
       MigrationFailPc(remainingMigrations[r], forceActions[r], index[r])]
  /\ UNCHANGED <<settings, marker, lockHolder, shadow, forceActions, client,
                 lastMigration, remainingMigrations, index, applied, calls,
                 reports, commitLog, initMarker, precededBySuccess>>

\* await executeActions(parsedSettings, shadow, afterAllMigrations)
After(r) ==
  /\ pc[r] = "after"
  /\ calls' = Bump(r, "after")
  /\ pc' = [pc EXCEPT ![r] = "report"]
  /\ UNCHANGED <<settings, marker, lockHolder, shadow, forceActions, client,
                 lastMigration, remainingMigrations, index, err, applied,
                 reports, commitLog, initMarker, precededBySuccess>>

\* an afterAllMigrations action fails
AfterFail(r) ==
  /\ pc[r] = "after"
  /\ calls' = Bump(r, "after")
  /\ err' = [err EXCEPT ![r] = Error("after", NoMigration)]
  /\ pc' = [pc EXCEPT ![r] = AfterFailPc]
  /\ UNCHANGED <<settings, marker, lockHolder, shadow, forceActions, client,
                 lastMigration, remainingMigrations, index, applied, reports,
                 commitLog, initMarker, precededBySuccess>>

\* parsedSettings.logger.info(...), the last statement of the locked body
Report(r) ==
  /\ pc[r] = "report"
  /\ reports' = [reports EXCEPT ![r] =
       Append(@, StatusLine(shadow[r], remainingMigrations[r], lastMigration[r]))]
  /\ pc' = [pc EXCEPT ![r] = "unlock"]
  /\ UNCHANGED <<settings, marker, lockHolder, shadow, forceActions, client,
                 lastMigration, remainingMigrations, index, err, applied,
                 calls, commitLog, initMarker, precededBySuccess>>

\* withAdvisoryLock releases the lock on every exit of its callback
Unlock(r) ==
  /\ pc[r] = "unlock"
  /\ lockHolder' = [lockHolder EXCEPT ![TargetOf(r)] =
       IF @ = r THEN NoRun ELSE @]
  /\ calls' = Bump(r, "lockRel")
  /\ pc' = [pc EXCEPT ![r] = "release"]
  /\ UNCHANGED <<settings, marker, shadow, forceActions, client,
                 lastMigration, remainingMigrations, index, err, applied,
                 reports, commitLog, initMarker, precededBySuccess>>

\* withClient releases the connection on every exit of its callback
Release(r) ==
  /\ pc[r] = "release"
  /\ client' = [client EXCEPT ![r] = FALSE]
  /\ calls' = Bump(r, "connRel")
  /\ pc' = [pc EXCEPT ![r] = "done"]
  /\ UNCHANGED <<settings, marker, lockHolder, shadow, forceActions,
                 lastMigration, remainingMigrations, index, err, applied,
                 reports, commitLog, initMarker, precededBySuccess>>

Next ==
  \E r \in Runs :
    \/ Invoke(r)
    \/ Connect(r)
    \/ ConnectFail(r)
    \/ AcquireLock(r)
    \/ LockFail(r)
    \/ GetLast(r)
    \/ GetLastFail(r)
    \/ GetAfter(r)
    \/ GetAfterFail(r)
    \/ Before(r)
    \/ BeforeFail(r)
    \/ RunMigration(r)
    \/ RunMigrationFail(r)
    \/ After(r)
    \/ AfterFail(r)
    \/ Report(r)
    \/ Unlock(r)
    \/ Release(r)

Spec == Init /\ [][Next]_vars

\* ------------------------------------------------------------ vocabulary
TailPcs == {"unlock", "release", "done"}

\* the steps of the callback handed to withAdvisoryLock
InBody(r) == pc[r] \in {"getLast", "getAfter", "before", "migrate", "after", "report"}

\* from the first step of the body until the lock is given back
InLockScope(r) == InBody(r) \/ pc[r] = "unlock"

\* both ledger reads of the run returned
PastLedger(r) ==
  \/ pc[r] \in {"before", "migrate", "after", "report"}
  \/ pc[r] \in TailPcs /\ err[r].kind \in {"none", "before", "migration", "after"}

\* the run is past the point where the Before phase is decided and run
PastBefore(r) ==
  \/ pc[r] \in {"migrate", "after", "report"}
  \/ pc[r] \in TailPcs /\ err[r].kind \in {"none", "before", "migration", "after"}

\* every step of the body returned without error
Succeeded(r) == pc[r] \in TailPcs /\ err[r].kind = "none"

WantsActions(r) == Len(remainingMigrations[r]) > 0 \/ forceActions[r]

\* rem is the part of cat strictly after marker m, in the order of cat
IsSuffixAfter(rem, cat, m) ==
  \E k \in 0..Len(cat) :
    /\ (k = 0) <=> (m = NoMigration)
    /\ k > 0 => cat[k] = m
    /\ Len(rem) = Len(cat) - k
    /\ \A i \in 1..Len(rem) : rem[i] = cat[k + i]

\* m is "none" or the identity of a catalog entry
KnownMarker(cat, m) ==
  m = NoMigration \/ \E i \in 1..Len(cat) : cat[i] = m

\* seg is a run of consecutive entries of cat that starts right after marker m
IsSegmentAfter(seg, cat, m) ==
  \E k \in 0..Len(cat) :
    /\ (k = 0) <=> (m = NoMigration)
    /\ k > 0 => cat[k] = m
    /\ k + Len(seg) <= Len(cat)
    /\ \A i \in 1..Len(seg) : seg[i] = cat[k + i]

\* the place of marker m in cat, 0 for "none"
Pos(cat, m) ==
  IF m = NoMigration THEN 0 ELSE CHOOSE i \in 1..Len(cat) : cat[i] = m

\* the target a run works on, from its shadow argument
RunTarget(r) == IF shadow[r] THEN "Shadow" ELSE "Production"

\* run r gave the lock back and run q, on the same target, holds it now:
\* r was the earlier holder
HeldBefore(r, q) ==
  /\ r # q
  /\ RunTarget(r) = RunTarget(q)
  /\ pc[r] \in {"release", "done"} /\ calls[r].lockRel = 1
  /\ InLockScope(q)

SelectedStringAbsent(r) ==
  \/ shadow[r] /\ ~settings.shadowConnectionString
  \/ ~shadow[r] /\ ~settings.connectionString

\* ------------------------------------------------------------ claims

\* C1: two runs against the same target are never both between the first
\* step of the locked body and the release of the lock, and a run is in the
\* body only while it is the holder of its target's lock.
C1_MutualExclusion ==
  /\ \A r \in Runs : InLockScope(r) => lockHolder[TargetOf(r)] = r
  /\ \A r, q \in Runs :
       (r # q /\ InLockScope(r) /\ InLockScope(q)) => TargetOf(r) # TargetOf(q)

C1_Witness ==
  \E r, q \in Runs :
    /\ r # q /\ TargetOf(r) = TargetOf(q)
    /\ pc[r] = "migrate" /\ applied[r] # <<>>
    /\ pc[q] = "lock"

\* C2: on every target the migrations committed by all runs together are,
\* in commit order, the catalog entries that follow the initial marker, one
\* after the other: none is committed twice, none is skipped, and the marker
\* is the last of them; nothing is committed on a target whose initial marker
\* the catalog does not know.
C2_CommittedOncePrefix ==
  \A t \in Targets :
    LET log == commitLog[t] IN
      /\ \A i, j \in 1..Len(log) : i # j => log[i] # log[j]
      /\ IF KnownMarker(settings.catalog, initMarker[t])
         THEN IsSegmentAfter(log, settings.catalog, initMarker[t])
         ELSE log = <<>>
      /\ log # <<>> => marker[t] = log[Len(log)]
      /\ log = <<>> => marker[t] = initMarker[t]

C2_Witness ==
  \E r, q \in Runs :
    /\ r # q /\ TargetOf(r) = TargetOf(q)
    /\ pc[r] = "done" /\ pc[q] = "done"
    /\ applied[r] = <<1>> /\ applied[q] = <<2>>

\* C3: the migrations a run has applied are always the first ones of its
\* PendingBatch, in order; the batch is the catalog strictly after the marker
\* the run read; a call of runCommittedMigration that fails is the call for
\* the next migration of the batch; a run that ends without error has applied
\* the whole batch.
C3_BatchAppliedInOrder ==
  \A r \in Runs :
    /\ Len(applied[r]) <= Len(remainingMigrations[r])
    /\ applied[r] = SubSeq(remainingMigrations[r], 1, Len(applied[r]))
    /\ pc[r] = "migrate" => index[r] = Len(applied[r]) + 1
    /\ err[r].kind = "migration" =>
         /\ Len(applied[r]) < Len(remainingMigrations[r])
         /\ err[r].migration = remainingMigrations[r][Len(applied[r]) + 1]
    /\ PastLedger(r) =>
         IsSuffixAfter(remainingMigrations[r], settings.catalog, lastMigration[r])
    /\ (PastLedger(r) /\ pc[r] \in {"after", "report"} \union TailPcs
          /\ err[r].kind \in {"none", "after"}) =>
         applied[r] = remainingMigrations[r]

C3_Witness ==
  \E r \in Runs :
    /\ pc[r] = "done" /\ err[r].kind = "none"
    /\ lastMigration[r] = NoMigration
    /\ applied[r] = <<1, 2, 3>>

\* C4: once the ledger reads succeeded, Before has been invoked exactly once
\* if the batch is non-empty or forceActions is set and never otherwise;
\* After likewise in a run whose steps all succeeded; neither is ever invoked
\* twice.
C4_HookGating ==
  \A r \in Runs :
    /\ calls[r].before <= 1 /\ calls[r].after <= 1
    /\ ~PastBefore(r) => calls[r].before = 0
    /\ PastBefore(r) => calls[r].before = (IF WantsActions(r) THEN 1 ELSE 0)
    /\ (PastBefore(r) /\ ~WantsActions(r)) => calls[r].after = 0
    /\ (pc[r] = "report" \/ Succeeded(r)) =>
         calls[r].after = (IF WantsActions(r) THEN 1 ELSE 0)
    /\ (Succeeded(r) /\ remainingMigrations[r] = <<>>) => applied[r] = <<>>

C4_Witness ==
  \E r, q \in Runs :
    /\ pc[r] = "done" /\ err[r].kind = "none"
    /\ remainingMigrations[r] = <<>> /\ forceActions[r]
    /\ calls[r].before = 1 /\ calls[r].after = 1 /\ applied[r] = <<>>
    /\ pc[q] = "done" /\ err[q].kind = "none"
    /\ remainingMigrations[q] = <<>> /\ ~forceActions[q]
    /\ calls[q].before = 0 /\ calls[q].after = 0

\* C5: a run whose Before phase failed applies no migration, never invokes
\* After, reports nothing, leaves the marker as it read it, and ends with
\* the hook's error.
C5_BeforeFailure ==
  \A r \in Runs :
    err[r].kind = "before" =>
      /\ pc[r] \in TailPcs
      /\ calls[r].before = 1
      /\ applied[r] = <<>>
      /\ calls[r].after = 0
      /\ reports[r] = <<>>
      /\ pc[r] = "unlock" => marker[TargetOf(r)] = lastMigration[r]

C5_Witness ==
  \E r, q \in Runs :
    /\ pc[r] = "done" /\ err[r].kind = "before"
    /\ Len(remainingMigrations[r]) = 3 /\ ~forceActions[r]
    /\ pc[q] = "done" /\ err[q].kind = "before"
    /\ Len(remainingMigrations[q]) = 0 /\ forceActions[q]

\* C6: a run whose k-th migration failed has applied exactly the first k-1
\* migrations of its batch, the marker is the (k-1)-th (the marker read at
\* the start when k = 1), After is not invoked, nothing is reported, and the
\* error names migration k.
C6_MigrationFailure ==
  \A r \in Runs :
    err[r].kind = "migration" =>
      LET k == index[r]
          rem == remainingMigrations[r] IN
        /\ pc[r] \in TailPcs
        /\ k \in 1..Len(rem)
        /\ err[r].migration = rem[k]
        /\ applied[r] = SubSeq(rem, 1, k - 1)
        /\ calls[r].after = 0
        /\ reports[r] = <<>>
        /\ pc[r] = "unlock" =>
             /\ marker[TargetOf(r)] = (IF k = 1 THEN lastMigration[r] ELSE rem[k - 1])
             /\ \A i \in k..Len(rem), j \in 1..Len(commitLog[TargetOf(r)]) :
                  commitLog[TargetOf(r)][j] # rem[i]

C6_Witness ==
  \E r \in Runs :
    /\ pc[r] = "done" /\ err[r].kind = "migration"
    /\ forceActions[r]
    /\ Len(remainingMigrations[r]) = 3
    /\ err[r].migration = remainingMigrations[r][2]
    /\ applied[r] = <<remainingMigrations[r][1]>>
    /\ marker[TargetOf(r)] = remainingMigrations[r][1]

\* C7: a run with forceActions=false invoked after a run against the same
\* target completed successfully finds an empty batch, applies nothing,
\* invokes neither hook phase, and when it completes it has taken and given
\* back the lock once and logged one status line.
C7_Idempotence ==
  \A r \in Runs :
    (precededBySuccess[r] /\ ~forceActions[r]) =>
      /\ applied[r] = <<>>
      /\ calls[r].before = 0 /\ calls[r].after = 0
      /\ PastLedger(r) =>
           /\ remainingMigrations[r] = <<>>
           /\ marker[TargetOf(r)] = lastMigration[r]
      /\ (pc[r] = "done" /\ err[r].kind = "none") =>
           /\ Len(reports[r]) = 1
           /\ calls[r].lockAcq = 1 /\ calls[r].lockRel = 1

C7_Witness ==
  \E r, q \in Runs :
    /\ r # q /\ TargetOf(r) = TargetOf(q)
    /\ pc[q] = "done" /\ err[q].kind = "none" /\ Len(applied[q]) = 3
    /\ precededBySuccess[r] /\ ~forceActions[r]
    /\ pc[r] = "done" /\ err[r].kind = "none" /\ Len(reports[r]) = 1

\* C8: a run that has ended holds neither the lock nor its connection; a run
\* takes the connection and the lock at most once each and gives each back
\* exactly as often as it took it; a run that entered the locked body took
\* both exactly once.
C8_ReleasedOnEveryExit ==
  \A r \in Runs :
    /\ calls[r].connAcq <= 1 /\ calls[r].lockAcq <= 1
    /\ calls[r].connRel <= calls[r].connAcq
    /\ calls[r].lockRel <= calls[r].lockAcq
    /\ client[r] <=> (calls[r].connAcq = 1 /\ calls[r].connRel = 0)
    /\ \A t \in Targets :
         lockHolder[t] = r <=>
           (t = TargetOf(r) /\ calls[r].lockAcq = 1 /\ calls[r].lockRel = 0)
    /\ pc[r] = "done" =>
         /\ ~client[r]
         /\ \A t \in Targets : lockHolder[t] # r
         /\ calls[r].connRel = calls[r].connAcq
         /\ calls[r].lockRel = calls[r].lockAcq
         /\ err[r].kind \in {"none", "ledger", "before", "migration", "after"} =>
              calls[r].connAcq = 1 /\ calls[r].lockAcq = 1

C8_Witness ==
  \E r, q \in Runs :
    /\ pc[r] = "done" /\ err[r].kind = "migration" /\ applied[r] # <<>>
    /\ calls[r].lockRel = 1 /\ calls[r].connRel = 1
    /\ pc[q] = "done" /\ err[q].kind = "after"
    /\ calls[q].lockRel = 1 /\ calls[q].connRel = 1

\* C9: a run fails with the configuration error exactly when the connection
\* string its shadow flag selects is absent, whatever the other string is,
\* and such a run has taken no connection and no lock, read no ledger, run
\* no hook, applied nothing and reported nothing.
C9_ConfigurationError ==
  \A r \in Runs :
    /\ pc[r] # "idle" => (err[r].kind = "config" <=> SelectedStringAbsent(r))
    /\ err[r].kind = "config" =>
         /\ pc[r] = "done"
         /\ calls[r] = NoCalls
         /\ ~client[r]
         /\ \A t \in Targets : lockHolder[t] # r
         /\ applied[r] = <<>>
         /\ reports[r] = <<>>

C9_Witness ==
  \E r, q \in Runs :
    /\ settings.connectionString /\ ~settings.shadowConnectionString
    /\ shadow[r] /\ pc[r] = "done" /\ err[r].kind = "config"
    /\ ~shadow[q] /\ pc[q] = "done" /\ err[q].kind = "none"

\* C10: a run whose ledger read failed invoked no hook, applied nothing,
\* reported nothing and left the marker as it was; it made no second attempt
\* at the read; getMigrationsAfter fails exactly for a marker that is not in
\* the catalog.
C10_LedgerFailure ==
  \A r \in Runs :
    /\ err[r].kind = "ledger" =>
         /\ pc[r] \in TailPcs
         /\ calls[r].ledger \in {1, 2}
         /\ calls[r].before = 0 /\ calls[r].after = 0
         /\ applied[r] = <<>>
         /\ reports[r] = <<>>
         /\ remainingMigrations[r] = <<>>
         /\ calls[r].ledger = 2 =>
              /\ ~KnownMarker(settings.catalog, lastMigration[r])
              /\ pc[r] = "unlock" => marker[TargetOf(r)] = lastMigration[r]
    /\ PastLedger(r) =>
         /\ calls[r].ledger = 2
         /\ KnownMarker(settings.catalog, lastMigration[r])

C10_Witness ==
  \E r, q \in Runs :
    /\ pc[r] = "done" /\ err[r].kind = "ledger" /\ calls[r].ledger = 2
    /\ forceActions[r]
    /\ pc[q] = "done" /\ err[q].kind = "ledger" /\ calls[q].ledger = 1

\* C11: a run that completed without error has logged exactly one line; it
\* says "N committed migrations executed" with N the size of the batch and
\* the number of migrations the run applied when the batch is non-empty,
\* "Already up to date" when the batch is empty and a marker was read, and
\* "Up to date - no committed migrations to run" when the batch is empty and
\* the marker was "none"; it carries "[shadow]" exactly for a shadow run;
\* forceActions plays no part.
C11_StatusLine ==
  \A r \in Runs :
    Succeeded(r) =>
      /\ Len(reports[r]) = 1
      /\ LET line == reports[r][1] IN
           /\ line.suffix = (IF shadow[r] THEN "[shadow]" ELSE "")
           /\ IF remainingMigrations[r] # <<>>
              THEN /\ line.text = "committed migrations executed"
                   /\ line.count = Len(remainingMigrations[r])
                   /\ line.count = Len(applied[r])
              ELSE IF lastMigration[r] # NoMigration
              THEN line.text = "Already up to date"
              ELSE line.text = "Up to date - no committed migrations to run"

C11_Witness ==
  \E r, q \in Runs :
    /\ pc[r] = "done" /\ err[r].kind = "none" /\ shadow[r] /\ forceActions[r]
    /\ reports[r] = <<[suffix |-> "[shadow]", count |-> 0,
                       text |-> "Already up to date"]>>
    /\ pc[q] = "done" /\ err[q].kind = "none" /\ ~shadow[q]
    /\ lastMigration[q] = 2 /\ applied[q] = <<3>>
    /\ reports[q] = <<[suffix |-> "", count |-> 1,
                       text |-> "committed migrations executed"]>>

\* the third text: an empty catalog and a target never migrated
C11_WitnessEmptyCatalog ==
  \E r \in Runs :
    /\ pc[r] = "done" /\ err[r].kind = "none" /\ settings.catalog = <<>>
    /\ reports[r] = <<[suffix |-> "", count |-> 0,
                       text |-> "Up to date - no committed migrations to run"]>>

\* C12: a run whose After phase failed has applied its whole batch; while it
\* still holds the lock the marker is the last migration of the batch (the
\* marker it read for an empty batch); every migration of the batch stays
\* in the commit log; the run ends with the hook's error; a run that holds
\* the lock after it finds an empty batch and, with forceActions=false,
\* invokes no hook.
C12_AfterFailure ==
  \A r \in Runs :
    err[r].kind = "after" =>
      LET rem == remainingMigrations[r]
          t == RunTarget(r) IN
        /\ pc[r] \in TailPcs
        /\ calls[r].after = 1
        /\ applied[r] = rem
        /\ \A i \in 1..Len(rem) :
             \E j \in 1..Len(commitLog[t]) : commitLog[t][j] = rem[i]
        /\ Pos(settings.catalog, marker[t]) >= Pos(settings.catalog, lastMigration[r]) + Len(rem)
        /\ pc[r] = "unlock" =>
             marker[t] = (IF rem = <<>> THEN lastMigration[r] ELSE rem[Len(rem)])
        /\ \A q \in Runs :
             (HeldBefore(r, q) /\ PastLedger(q)) =>
               /\ remainingMigrations[q] = <<>>
               /\ ~forceActions[q] => calls[q].before = 0 /\ calls[q].after = 0

C12_Witness ==
  \E r, q \in Runs :
    /\ pc[r] = "done" /\ err[r].kind = "after" /\ Len(applied[r]) = 3
    /\ HeldBefore(r, q) /\ pc[q] = "unlock" /\ err[q].kind = "none"
    /\ ~forceActions[q] /\ remainingMigrations[q] = <<>>
    /\ lastMigration[q] = applied[r][3]

\* the run has read the marker and still holds the lock
HasReadMarker(r) ==
  \/ pc[r] \in {"getAfter", "before", "migrate", "after", "report"}
  \/ pc[r] = "unlock" /\ (PastLedger(r) \/ calls[r].ledger = 2)

\* C13: a run that has not yet acquired the lock has read no ledger, has no
\* batch and has done no work; the ledger is read only by a run that took
\* the lock; while the run holds the lock the marker is the one it read or
\* the last migration it applied itself; the marker it read is at or after
\* every migration an earlier holder committed, and none of those is in its
\* batch.
C13_NoSpeculativeRead ==
  \A r \in Runs :
    /\ pc[r] \in {"idle", "connect", "lock"} =>
         /\ calls[r].ledger = 0 /\ calls[r].before = 0 /\ calls[r].after = 0
         /\ lastMigration[r] = NoMigration
         /\ remainingMigrations[r] = <<>>
         /\ applied[r] = <<>>
    /\ calls[r].ledger >= 1 => calls[r].lockAcq = 1
    /\ HasReadMarker(r) =>
         marker[RunTarget(r)] =
           (IF applied[r] = <<>> THEN lastMigration[r]
            ELSE applied[r][Len(applied[r])])
    /\ \A q \in Runs :
         (HeldBefore(q, r) /\ HasReadMarker(r) /\ applied[q] # <<>>) =>
           /\ Pos(settings.catalog, lastMigration[r]) >=
                Pos(settings.catalog, applied[q][Len(applied[q])])
           /\ \A i \in 1..Len(remainingMigrations[r]), j \in 1..Len(applied[q]) :
                remainingMigrations[r][i] # applied[q][j]

C13_Witness ==
  \E r, q \in Runs :
    /\ HeldBefore(q, r)
    /\ err[q].kind = "migration" /\ applied[q] = <<1, 2>>
    /\ pc[r] = "before"
    /\ lastMigration[r] = 2 /\ remainingMigrations[r] = <<3>>

\* C14: the phases of a run follow one another: while Before is awaited
\* nothing is applied; a migration is awaited or applied only after Before
\* returned without error (it is always due for a non-empty batch) and only
\* while no step has failed; After is awaited or invoked only after Before
\* and the whole batch succeeded; the report happens only after After, when
\* it was due, returned without error.
C14_PhasesSequential ==
  \A r \in Runs :
    /\ pc[r] = "before" =>
         /\ calls[r].before = 0 /\ calls[r].after = 0
         /\ applied[r] = <<>> /\ reports[r] = <<>> /\ err[r].kind = "none"
    /\ (pc[r] = "migrate" \/ applied[r] # <<>>) =>
         /\ calls[r].before = 1
         /\ err[r].kind # "before"
    /\ pc[r] = "migrate" =>
         /\ err[r].kind = "none"
         /\ calls[r].after = 0 /\ reports[r] = <<>>
         /\ Len(applied[r]) < Len(remainingMigrations[r])
    /\ (pc[r] = "after" \/ calls[r].after >= 1) =>
         /\ calls[r].before = 1
         /\ applied[r] = remainingMigrations[r]
         /\ err[r].kind \in {"none", "after"}
    /\ pc[r] = "after" =>
         /\ err[r].kind = "none" /\ calls[r].after = 0 /\ reports[r] = <<>>
    /\ (pc[r] = "report" \/ reports[r] # <<>>) =>
         /\ err[r].kind = "none"
         /\ applied[r] = remainingMigrations[r]
         /\ calls[r].before = (IF WantsActions(r) THEN 1 ELSE 0)
         /\ calls[r].after = calls[r].before
    /\ pc[r] = "report" => reports[r] = <<>>

C14_Witness ==
  \E r, q \in Runs :
    /\ pc[r] = "after" /\ calls[r].before = 1 /\ Len(applied[r]) = 3
    /\ pc[q] = "migrate" /\ calls[q].before = 1 /\ Len(applied[q]) = 1
    /\ Len(remainingMigrations[q]) = 2

\* no run other than r and q has held the lock of r's target
OnlyHolders(r, q) ==
  \A p \in Runs \ {r, q} : calls[p].lockAcq = 0 \/ RunTarget(p) # RunTarget(r)

\* C15: when a run aborted at migration k of its batch of n and the next
\* holder of the lock has computed its batch, that batch is migrations k..n
\* of the first batch and its marker is migration k-1 (the first run's
\* marker when k = 1); the second run invokes Before once; when it completes
\* without error the two runs together have applied the first batch, every
\* migration of it is committed exactly once, and the marker is migration n.
C15_RecoveryAfterAbort ==
  \A r, q \in Runs :
    (err[r].kind = "migration" /\ HeldBefore(r, q) /\ OnlyHolders(r, q)
       /\ PastLedger(q)) =>
      LET first == remainingMigrations[r]
          k == Len(applied[r]) + 1
          n == Len(first)
          t == RunTarget(r) IN
        /\ k <= n
        /\ err[r].migration = first[k]
        /\ remainingMigrations[q] = [i \in 1..(n - k + 1) |-> first[k - 1 + i]]
        /\ lastMigration[q] = (IF k = 1 THEN lastMigration[r] ELSE first[k - 1])
        /\ PastBefore(q) => calls[q].before = 1
        /\ (pc[q] = "unlock" /\ err[q].kind = "none") =>
             /\ applied[r] \o applied[q] = first
             /\ marker[t] = first[n]
             /\ \A i \in 1..n :
                  Cardinality({j \in 1..Len(commitLog[t]) : commitLog[t][j] = first[i]}) = 1

C15_Witness ==
  \E r, q \in Runs :
    /\ HeldBefore(r, q) /\ err[r].kind = "migration"
    /\ remainingMigrations[r] = <<1, 2, 3>> /\ applied[r] = <<1>>
    /\ pc[q] = "unlock" /\ err[q].kind = "none" /\ ~forceActions[q]
    /\ applied[q] = <<2, 3>> /\ calls[q].before = 1

\* C16: a run logs at most one status line; a line is logged only by a run
\* in which both ledger reads, Before and After when due, and every
\* migration of the batch succeeded, its count is the whole batch, and the
\* run holds the lock and its connection when it logs; a run that ended has
\* logged a line exactly when it ended without error, so no run both
\* reports and fails.
C16_ReportOrFail ==
  \A r \in Runs :
    /\ Len(reports[r]) <= 1
    /\ err[r].kind # "none" => reports[r] = <<>>
    /\ pc[r] = "report" =>
         /\ lockHolder[RunTarget(r)] = r /\ client[r]
         /\ err[r].kind = "none"
    /\ reports[r] # <<>> =>
         /\ pc[r] \in TailPcs
         /\ calls[r].ledger = 2
         /\ calls[r].before = (IF WantsActions(r) THEN 1 ELSE 0)
         /\ calls[r].after = (IF WantsActions(r) THEN 1 ELSE 0)
         /\ applied[r] = remainingMigrations[r]
         /\ reports[r][1].count = Len(applied[r])
         /\ pc[r] = "unlock" => lockHolder[RunTarget(r)] = r /\ client[r]
    /\ pc[r] = "done" => (Len(reports[r]) = 1 <=> err[r].kind = "none")

C16_Witness ==
  \E r, q \in Runs :
    /\ pc[r] = "unlock" /\ Len(reports[r]) = 1 /\ reports[r][1].count = 2
    /\ lockHolder[RunTarget(r)] = r
    /\ pc[q] = "done" /\ err[q].kind = "migration" /\ Len(applied[q]) = 1
    /\ reports[q] = <<>>

\* one step of the system, seen from the marker of each target
C17_Step ==
  /\ \A t \in Targets :
       marker'[t] # marker[t] =>
         \E r \in Runs :
           /\ RunTarget(r) = t /\ pc[r] = "migrate" /\ err[r].kind = "none"
           /\ marker'[t] = remainingMigrations[r][Len(applied[r]) + 1]
           /\ applied'[r] = Append(applied[r], marker'[t])
           /\ err' = err /\ calls' = calls /\ reports' = reports
           /\ lockHolder' = lockHolder
  /\ \A r \in Runs :
       applied'[r] # applied[r] =>
         /\ Len(applied'[r]) = Len(applied[r]) + 1
         /\ marker'[RunTarget(r)] = applied'[r][Len(applied'[r])]
         /\ Pos(settings.catalog, marker'[RunTarget(r)]) >
              Pos(settings.catalog, marker[RunTarget(r)])
  /\ \A r \in Runs :
       (remainingMigrations[r] = <<>> /\ pc'[r] # pc[r]) =>
         marker' = marker

\* C17: the marker of a target changes only in a step in which a run against
\* that target, in which nothing has failed, has runCommittedMigration
\* succeed for the next migration of its batch; the marker then is that
\* migration and stands later in the catalog than before; no other step
\* (lock, ledger read, hook, report, release, a failing step) changes it,
\* and no step of a run with an empty batch does.
C17_MarkerFrame == [][C17_Step]_vars

C17_Witness ==
  \E r, q \in Runs :
    /\ RunTarget(r) # RunTarget(q)
    /\ pc[r] = "done" /\ err[r].kind = "after"
    /\ initMarker[RunTarget(r)] = 1 /\ applied[r] = <<2, 3>>
    /\ marker[RunTarget(r)] = 3
    /\ pc[q] = "done" /\ err[q].kind = "none"
    /\ calls[q].before = 1 /\ calls[q].after = 1
    /\ remainingMigrations[q] = <<>>
    /\ marker[RunTarget(q)] = initMarker[RunTarget(q)]

\* a step of run r that an awaited call of the run returns, with or without
\* an error; taking the lock needs it to be free
Progress(r) ==
  \/ Connect(r) \/ ConnectFail(r)
  \/ AcquireLock(r)
  \/ GetLast(r) \/ GetLastFail(r)
  \/ GetAfter(r) \/ GetAfterFail(r)
  \/ Before(r) \/ BeforeFail(r)
  \/ RunMigration(r) \/ RunMigrationFail(r)
  \/ After(r) \/ AfterFail(r)
  \/ Report(r)
  \/ Unlock(r)
  \/ Release(r)

\* both connection strings are configured and both targets start from the
\* same marker: every run gets as far as the lock
LiveInit ==
  /\ Init
  /\ settings.connectionString /\ settings.shadowConnectionString
  /\ marker["Shadow"] = marker["Production"]

\* every awaited call eventually returns
LiveSpec == LiveInit /\ [][Next]_vars /\ \A r \in Runs : WF_vars(Progress(r))

\* C18: under weak fairness of the steps of every run, a run that was
\* invoked eventually ends, and a run that waits for the lock eventually
\* holds it (or fails with the lock error).
C18_Termination ==
  \A r \in Runs :
    /\ (pc[r] # "idle") ~> (pc[r] = "done")
    /\ (pc[r] = "lock") ~> (calls[r].lockAcq = 1 \/ err[r].kind = "lock")

C18_Witness ==
  \E r, q \in Runs :
    /\ r # q /\ RunTarget(r) = RunTarget(q)
    /\ pc[q] = "unlock" /\ lockHolder[RunTarget(q)] = q
    /\ err[q].kind = "migration"
    /\ pc[r] = "lock" /\ calls[r].lockAcq = 0

\* what belongs to a run belongs to the target its shadow argument names
C19_OneTarget ==
  /\ \A t \in Targets, r \in Runs : lockHolder[t] = r => t = RunTarget(r)
  /\ \A r \in Runs :
       /\ reports[r] # <<>> =>
            reports[r][1].suffix = (IF shadow[r] THEN "[shadow]" ELSE "")
       /\ HasReadMarker(r) =>
            marker[RunTarget(r)] =
              (IF applied[r] = <<>> THEN lastMigration[r]
               ELSE applied[r][Len(applied[r])])
  /\ \A t \in Targets :
       /\ \A j \in 1..Len(commitLog[t]) :
            \E r \in Runs :
              /\ RunTarget(r) = t
              /\ \E i \in 1..Len(applied[r]) : applied[r][i] = commitLog[t][j]
       /\ (\A r \in Runs : RunTarget(r) = t => applied[r] = <<>>) =>
            marker[t] = initMarker[t]

\* a step never changes the target of a run that was invoked, and changes
\* the marker or the lock of a target only for a run against that target
C19_Step ==
  /\ \A r \in Runs : pc[r] # "idle" => shadow'[r] = shadow[r]
  /\ \A t \in Targets :
       marker'[t] # marker[t] =>
         \E r \in Runs : RunTarget(r) = t /\ applied'[r] # applied[r]
  /\ \A t \in Targets :
       lockHolder'[t] # lockHolder[t] =>
         \E r \in Runs : RunTarget(r) = t /\ pc[r] # "idle" /\ pc'[r] # pc[r]

C20_Nested ==
  /\ \A t \in Targets, r \in Runs : lockHolder[t] = r => client[r]
  /\ \A r \in Runs :
       /\ InBody(r) => (client[r] /\ lockHolder[RunTarget(r)] = r)
       /\ client[r] <=> (calls[r].connAcq = 1 /\ calls[r].connRel = 0)
       /\ lockHolder[RunTarget(r)] = r <=>
            (calls[r].lockAcq = 1 /\ calls[r].lockRel = 0)
       /\ calls[r].lockAcq <= calls[r].connAcq
       /\ calls[r].lockRel <= calls[r].lockAcq
       /\ calls[r].connRel <= calls[r].connAcq
       /\ calls[r].connAcq <= 1
       /\ calls[r].connRel = 1 => calls[r].lockRel = calls[r].lockAcq

\* a step takes a free lock or frees a held one, for a run that has its
\* connection before and after the step; a connection changes hands with
\* no lock held by its run
C20_Step ==
  /\ \A t \in Targets :
       lockHolder'[t] # lockHolder[t] =>
         /\ lockHolder[t] = NoRun \/ lockHolder'[t] = NoRun
         /\ \A r \in Runs :
              (lockHolder[t] = r \/ lockHolder'[t] = r) =>
                (client[r] /\ client'[r])
  /\ \A r \in Runs :
       client'[r] # client[r] =>
         \A t \in Targets : lockHolder[t] # r /\ lockHolder'[t] # r

\* C20: a run that holds the advisory lock holds its connection, and it is
\* in a ledger-read, hook, migration or report step only while it holds both;
\* the lock is taken after the connection and freed before it, and neither
\* passes from one run to another in one step.
C20_ResourceNesting == []C20_Nested /\ [][C20_Step]_vars

C20_Witness ==
  \E r, q \in Runs :
    /\ r # q /\ RunTarget(r) = RunTarget(q)
    /\ pc[r] = "release" /\ client[r] /\ err[r].kind = "ledger"
    /\ calls[r].lockAcq = 1 /\ calls[r].lockRel = 1
    /\ pc[q] = "migrate" /\ lockHolder[RunTarget(q)] = q /\ client[q]

====
